---- MODULE Spec2Model ----
(***************************************************************************)
(* A model of the command-line argument parser of src/gargs.go.            *)
(*                                                                         *)
(* A Go string is modelled as a sequence of one-character strings, so that *)
(* strings.Trim, HasPrefix, Replace and Split, and the strconv parsers,    *)
(* are computed character by character as the library computes them.       *)
(* An Arg (interface{}) is a tagged record [t |-> type, v |-> payload].    *)
(***************************************************************************)
EXTENDS Integers, Sequences, FiniteSets, TLC

VARIABLES
    pc,           \* the place reached in Parse (or in the coercion round trip)
    args,         \* Parse's argument list
    n,            \* the 1-based place of the first loop in args
    escaped,      \* a "--" has been met
    escapedArgs,  \* the coerced arguments met after it
    plain,        \* the coerced positional arguments
    parsed,       \* the result map, a function from keys to Args
    sanitized,    \* the normalized tokens
    i,            \* the 1-based index of the second loop in sanitized
    current,      \* the second loop's current token
    resolved,     \* next as lines 127-139 leave it
    key,          \* key as lines 141-145 leave it
    next,         \* next as lines 141-145 leave it
    handled,      \* per normalized token, the roles the second loop gave it
    reads,        \* the indices at which the second loop read sanitized
    cIn, cOut, cStr, cBack  \* a string, its coercion, its string form, its re-coercion

vars == <<pc, args, n, escaped, escapedArgs, plain, parsed, sanitized, i,
          current, resolved, key, next, handled, reads, cIn, cOut, cStr, cBack>>

parseVars == <<args, n, escaped, escapedArgs, plain, parsed, sanitized, i,
               current, resolved, key, next, handled, reads>>

coerceVars == <<cIn, cOut, cStr, cBack>>

(***************************************************************************)
(* Bounds of the model.                                                    *)
(***************************************************************************)
\* Longest argument list given to Parse.
MaxArgs == 3

\* Longest string given to coerceArgument on its own.
MaxLen == 3

(***************************************************************************)
(* The strings package.                                                    *)
(***************************************************************************)
S_dashdash == <<"-", "-">>
S_dash     == <<"-">>
S_eq       == <<"=">>
S_space    == <<" ">>
S_empty    == <<>>
S_0x       == <<"0", "x">>
S_no       == <<"n", "o", "-">>
S_true     == <<"t", "r", "u", "e">>
S_false    == <<"f", "a", "l", "s", "e">>
S_under    == <<"_">>

\* strings.HasPrefix(s, p)
HasPrefix(s, p) == Len(s) >= Len(p) /\ SubSeq(s, 1, Len(p)) = p

\* strings.Index(s, sub), 1-based, 0 when sub does not occur
Index(s, sub) ==
    LET hits == {j \in 1..(Len(s) - Len(sub) + 1) : SubSeq(s, j, j + Len(sub) - 1) = sub}
    IN  IF hits = {} THEN 0 ELSE CHOOSE j \in hits : \A k \in hits : j <= k

\* strings.Replace(s, old, new, 1): the first occurrence of old only
ReplaceFirst(s, old, new) ==
    LET j == Index(s, old)
    IN  IF j = 0 THEN s
        ELSE SubSeq(s, 1, j - 1) \o new \o SubSeq(s, j + Len(old), Len(s))

RECURSIVE TrimLeft(_, _)
TrimLeft(s, c) ==
    IF s # <<>> /\ Head(s) = c THEN TrimLeft(Tail(s), c) ELSE s

RECURSIVE TrimRight(_, _)
TrimRight(s, c) ==
    IF s # <<>> /\ s[Len(s)] = c THEN TrimRight(SubSeq(s, 1, Len(s) - 1), c) ELSE s

\* strings.Trim(s, " "): leading and trailing spaces removed
Trim(s, c) == TrimRight(TrimLeft(s, c), c)

\* strings.Split(s, sep) for a non-empty sep: every occurrence splits
RECURSIVE Split(_, _)
Split(s, sep) ==
    LET j == Index(s, sep)
    IN  IF j = 0 THEN <<s>>
        ELSE <<SubSeq(s, 1, j - 1)>> \o Split(SubSeq(s, j + Len(sep), Len(s)), sep)

\* strings.Split(s, ""): one string per character, none for the empty string
Explode(s) == [j \in 1..Len(s) |-> <<s[j]>>]

(***************************************************************************)
(* Characters.                                                             *)
(***************************************************************************)
DecDigits == <<"0", "1", "2", "3", "4", "5", "6", "7", "8", "9">>
HexLower  == <<"a", "b", "c", "d", "e", "f">>
HexUpper  == <<"A", "B", "C", "D", "E", "F">>
Uppers    == <<"A", "B", "C", "D", "E", "F", "G", "H", "I", "J", "K", "L", "M",
               "N", "O", "P", "Q", "R", "S", "T", "U", "V", "W", "X", "Y", "Z">>
Lowers    == <<"a", "b", "c", "d", "e", "f", "g", "h", "i", "j", "k", "l", "m",
               "n", "o", "p", "q", "r", "s", "t", "u", "v", "w", "x", "y", "z">>

Pos(seq, c)   == CHOOSE j \in 1..Len(seq) : seq[j] = c
In(seq, c)    == \E j \in 1..Len(seq) : seq[j] = c
IsDigit(c)    == In(DecDigits, c)
IsHexDigit(c) == In(DecDigits, c) \/ In(HexLower, c) \/ In(HexUpper, c)
DigitVal(c)   == Pos(DecDigits, c) - 1
HexVal(c)     == IF In(DecDigits, c) THEN Pos(DecDigits, c) - 1
                 ELSE IF In(HexLower, c) THEN Pos(HexLower, c) + 9
                 ELSE Pos(HexUpper, c) + 9
Lower(c)      == IF In(Uppers, c) THEN Lowers[Pos(Uppers, c)] ELSE c
LowerStr(s)   == [j \in 1..Len(s) |-> Lower(s[j])]

\* the characters of s that are not in drop, in order
RECURSIVE Filter(_, _)
Filter(s, drop) ==
    IF s = <<>> THEN <<>>
    ELSE IF Head(s) \in drop THEN Filter(Tail(s), drop)
    ELSE <<Head(s)>> \o Filter(Tail(s), drop)

\* the number written by a string of decimal digits (0 for the empty string)
RECURSIVE DecValue(_)
DecValue(s) ==
    IF s = <<>> THEN 0 ELSE 10 * DecValue(SubSeq(s, 1, Len(s) - 1)) + DigitVal(s[Len(s)])

RECURSIVE HexValue(_)
HexValue(s) ==
    IF s = <<>> THEN 0 ELSE 16 * HexValue(SubSeq(s, 1, Len(s) - 1)) + HexVal(s[Len(s)])

\* the decimal digits of a natural number
RECURSIVE DecString(_)
DecString(k) ==
    IF k < 10 THEN <<DecDigits[k + 1]>> ELSE DecString(k \div 10) \o <<DecDigits[(k % 10) + 1]>>

RECURSIVE Zeros(_)
Zeros(k) == IF k <= 0 THEN <<>> ELSE <<"0">> \o Zeros(k - 1)

(***************************************************************************)
(* Arg values: interface{} holding a float64, a uint64, a bool, a string   *)
(* or a []Arg.  A float64 is kept as sign, mantissa and decimal exponent   *)
(* with the mantissa not divisible by ten, so that "1", "1.0" and "1e0"    *)
(* are one value; this is exact for the short literals the model draws.    *)
(***************************************************************************)
RECURSIVE Normalize(_, _)
Normalize(m, e) ==
    IF m = 0 THEN <<0, 0>>
    ELSE IF m % 10 = 0 THEN Normalize(m \div 10, e + 1)
    ELSE <<m, e>>

FloatV(neg, m, e) ==
    LET ne == Normalize(m, e)
    IN  [t |-> "float64", v |-> <<"num", neg, ne[1], ne[2]>>]
InfV(neg)   == [t |-> "float64", v |-> <<"inf", neg, 0, 0>>]
NaNV        == [t |-> "float64", v |-> <<"nan", FALSE, 0, 0>>]
UintV(k)    == [t |-> "uint64", v |-> k]
BoolV(b)    == [t |-> "bool", v |-> b]
StrV(s)     == [t |-> "string", v |-> s]
SliceV(seq) == [t |-> "[]Arg", v |-> seq]

Fail == [ok |-> FALSE, val |-> BoolV(FALSE)]
Ok(v) == [ok |-> TRUE, val |-> v]

(***************************************************************************)
(* strconv.ParseFloat(s, 64).                                              *)
(***************************************************************************)
S_inf      == <<"i", "n", "f">>
S_infinity == <<"i", "n", "f", "i", "n", "i", "t", "y">>
S_nan      == <<"n", "a", "n">>

Signed(s)   == s # <<>> /\ s[1] \in {"+", "-"}
Unsigned(s) == IF Signed(s) THEN Tail(s) ELSE s
Negative(s) == s # <<>> /\ s[1] = "-"

\* "NaN", and the possibly signed "Inf" and "Infinity", in any case
Special(s) ==
    LET low == LowerStr(Unsigned(s))
    IN  IF low = S_inf \/ low = S_infinity THEN Ok(InfV(Negative(s)))
        ELSE IF ~Signed(s) /\ low = S_nan THEN Ok(NaNV)
        ELSE Fail

\* an underscore may stand only between two digits
RECURSIVE UnderscoreScan(_, _, _)
UnderscoreScan(s, j, saw) ==
    IF j > Len(s) THEN saw # "_"
    ELSE IF IsDigit(s[j]) THEN UnderscoreScan(s, j + 1, "0")
    ELSE IF s[j] = "_" THEN (saw = "0" /\ UnderscoreScan(s, j + 1, "_"))
    ELSE (saw # "_" /\ UnderscoreScan(s, j + 1, "!"))

UnderscoreOK(s) == UnderscoreScan(Unsigned(s), 1, "^")

\* a decimal literal: sign, digits with at most one point, optional exponent
Decimal(s) ==
    LET body    == Unsigned(s)
        es      == {j \in 1..Len(body) : Lower(body[j]) = "e"}
        ePos    == IF es = {} THEN 0 ELSE CHOOSE j \in es : \A k \in es : j <= k
        mant    == IF ePos = 0 THEN body ELSE SubSeq(body, 1, ePos - 1)
        expo    == IF ePos = 0 THEN <<>> ELSE SubSeq(body, ePos + 1, Len(body))
        expDig  == Unsigned(expo)
        mantOK  == /\ \A j \in 1..Len(mant) : IsDigit(mant[j]) \/ mant[j] \in {"_", "."}
                   /\ Cardinality({j \in 1..Len(mant) : mant[j] = "."}) <= 1
                   /\ \E j \in 1..Len(mant) : IsDigit(mant[j])
        expOK   == \/ ePos = 0
                   \/ /\ expDig # <<>>
                      /\ IsDigit(expDig[1])
                      /\ \A j \in 1..Len(expDig) : IsDigit(expDig[j]) \/ expDig[j] = "_"
        \* a hexadecimal mantissa needs a 'p' exponent
        hexp    == Len(body) > 2 /\ body[1] = "0" /\ Lower(body[2]) = "x"
        noUnd   == Filter(mant, {"_"})
        dot     == Index(noUnd, <<".">>)
        frac    == IF dot = 0 THEN 0 ELSE Len(noUnd) - dot
        m       == DecValue(Filter(noUnd, {"."}))
        ex      == DecValue(Filter(expDig, {"_"}))
        e10     == (IF Negative(expo) THEN 0 - ex ELSE ex) - frac
        ne      == Normalize(m, e10)
        dp      == Len(DecString(ne[1])) + ne[2]
    IN  IF hexp \/ ~mantOK \/ ~expOK THEN Fail
        ELSE IF In(s, "_") /\ ~UnderscoreOK(s) THEN Fail
        ELSE IF m # 0 /\ dp - 1 > 308 THEN Fail                   \* ErrRange
        ELSE IF m # 0 /\ dp < 0 - 330 THEN Ok(FloatV(Negative(s), 0, 0))
        ELSE Ok(FloatV(Negative(s), m, e10))

ParseFloat(s) ==
    IF s = <<>> THEN Fail
    ELSE IF Special(s).ok THEN Special(s)
    ELSE Decimal(s)

(***************************************************************************)
(* strconv.ParseUint(s, 16, 32) and strconv.ParseBool(s).                  *)
(***************************************************************************)
\* More than eight significant hex digits do not fit in 32 bits (ErrRange).
ParseUint(s) ==
    IF s = <<>> \/ \E j \in 1..Len(s) : ~IsHexDigit(s[j]) THEN Fail
    ELSE IF Len(TrimLeft(s, "0")) > 8 THEN Fail
    ELSE Ok(UintV(HexValue(TrimLeft(s, "0"))))

TrueWords  == {<<"1">>, <<"t">>, <<"T">>, <<"T", "R", "U", "E">>, S_true,
               <<"T", "r", "u", "e">>}
FalseWords == {<<"0">>, <<"f">>, <<"F">>, <<"F", "A", "L", "S", "E">>, S_false,
               <<"F", "a", "l", "s", "e">>}

ParseBool(s) ==
    IF s \in TrueWords THEN Ok(BoolV(TRUE))
    ELSE IF s \in FalseWords THEN Ok(BoolV(FALSE))
    ELSE Fail

\* Faulty variant of coerceArgument: hex digits are taken without the "0x".
coerceArgumentNoPrefix(value) ==
    IF ParseFloat(value).ok THEN ParseFloat(value).val
    ELSE IF ParseUint(ReplaceFirst(value, S_0x, S_empty)).ok
         THEN ParseUint(ReplaceFirst(value, S_0x, S_empty)).val
    ELSE IF ParseBool(value).ok THEN ParseBool(value).val
    ELSE StrV(value)

(***************************************************************************)
(* coerceArgument: float64, then hex, then bool, then the string itself.   *)
(***************************************************************************)
coerceArgument(value) ==
    IF ParseFloat(value).ok THEN ParseFloat(value).val
    ELSE IF HasPrefix(value, S_0x) /\ ParseUint(ReplaceFirst(value, S_0x, S_empty)).ok
         THEN ParseUint(ReplaceFirst(value, S_0x, S_empty)).val
    ELSE IF ParseBool(value).ok THEN ParseBool(value).val
    ELSE StrV(value)

(***************************************************************************)
(* The string form of a coerced value, as fmt's %v prints it.              *)
(***************************************************************************)
\* %e: d.ddde+XX, the exponent of at least two digits
FmtE(digs, exp) ==
    <<digs[1]>> \o (IF Len(digs) > 1 THEN <<".">> \o Tail(digs) ELSE <<>>)
    \o <<"e", IF exp < 0 THEN "-" ELSE "+">>
    \o (LET a == IF exp < 0 THEN 0 - exp ELSE exp
        IN  IF a < 10 THEN <<"0">> \o DecString(a) ELSE DecString(a))

\* %f with the fewest digits: dp is the place of the decimal point in digs
FmtF(digs, dp) ==
    (IF dp > 0
     THEN SubSeq(digs, 1, IF dp < Len(digs) THEN dp ELSE Len(digs)) \o Zeros(dp - Len(digs))
     ELSE <<"0">>)
    \o (IF Len(digs) > dp
        THEN <<".">> \o Zeros(0 - dp) \o SubSeq(digs, (IF dp > 0 THEN dp ELSE 0) + 1, Len(digs))
        ELSE <<>>)

\* %g with the shortest digits: %e when the exponent is < -4 or >= 6
FormatFloat(f) ==
    LET sign == IF f[2] THEN <<"-">> ELSE <<>>
        digs == DecString(f[3])
        dp   == Len(digs) + f[4]
    IN  IF f[1] = "inf" THEN (IF f[2] THEN <<"-">> ELSE <<"+">>) \o <<"I", "n", "f">>
        ELSE IF f[1] = "nan" THEN <<"N", "a", "N">>
        ELSE IF f[3] = 0 THEN sign \o <<"0">>
        ELSE IF dp - 1 < 0 - 4 \/ dp - 1 >= 6 THEN sign \o FmtE(digs, dp - 1)
        ELSE sign \o FmtF(digs, dp)

FormatArg(a) ==
    IF a.t = "float64" THEN FormatFloat(a.v)
    ELSE IF a.t = "uint64" THEN DecString(a.v)
    ELSE IF a.t = "bool" THEN (IF a.v THEN S_true ELSE S_false)
    ELSE a.v

(***************************************************************************)
(* Parse: the inputs.                                                      *)
(***************************************************************************)
Tokens ==
    { <<"a">>,                                      \* a
      <<" ", "1", " ">>,                            \* " 1 "
      <<"t", "r", "u", "e">>,                       \* true
      <<"-", "-">>,                                 \* --
      <<"-", "-", "x">>,                            \* --x
      <<"-", "-", "_">>,                            \* --_
      <<"-", "-", "n", "o", "-", "x">>,             \* --no-x
      <<"-", "-", "x", "=", "1">>,                  \* --x=1
      <<"-", "-", "x", "=", "0", "x", "1", "A">>,   \* --x=0x1A
      <<"-", "-", "x", "=", "b", "=", "c">>,        \* --x=b=c
      <<"-", "-", "x", "=", "a", " ", "b">>,        \* --x=a b
      <<"-", "x", "_">> }                           \* -x_

ArgLists == UNION {[1..k -> Tokens] : k \in 0..MaxArgs}

FairTokens ==
    { <<"a">>,                                      \* a
      <<"-", "-">>,                                 \* --
      <<"-", "-", "x">>,                            \* --x
      <<"-", "-", "x", "=", "a", " ", "b">>,        \* --x=a b
      <<"-", "x", "_">> }                           \* -x_

FairArgLists == UNION {[1..k -> FairTokens] : k \in 0..MaxArgs}

\* the result map before the first loop: {"_": []Arg{}}
EmptyMap == (S_under :> SliceV(<<>>))

Has(p, k) == k \in DOMAIN p

\* p[k] = v
Put(p, k, v) == [q \in DOMAIN p \cup {k} |-> IF q = k THEN v ELSE p[q]]

(***************************************************************************)
(* Parse: the first loop (lines 84-108), one argument per step.            *)
(***************************************************************************)
\* line 85
TrimArg(v) == Trim(v, " ")

\* line 97: the tokens a flag argument gives
FlagTokens(value) == Split(ReplaceFirst(value, S_eq, S_space), S_space)

\* Faulty variant of Options: the bundle is kept as one option.
OptionsUnsplit(value) == <<ReplaceFirst(value, S_dash, S_empty)>>

\* line 100: the options of a bundle
Options(value) == Explode(ReplaceFirst(value, S_dash, S_empty))

\* lines 101-103: every option is set to true
RECURSIVE SetOptions(_, _)
SetOptions(p, options) ==
    IF options = <<>> THEN p
    ELSE SetOptions(Put(p, Head(options), BoolV(TRUE)), Tail(options))

\* line 106: the token a regular argument gives
PlainToken(v, value) == v

\* line 88: the test for the escape marker, made before escaped is looked at
IsEscapeMarker(value, esc) == value = S_dashdash

NoRoles(k) == [j \in 1..k |-> <<>>]

Sanitizing == pc = "sanitize" /\ n <= Len(args)

SanitizeMarker ==
    /\ Sanitizing
    /\ \E value \in {TrimArg(args[n])} :
          /\ IsEscapeMarker(value, escaped)
          /\ escaped' = TRUE
    /\ n' = n + 1
    /\ UNCHANGED <<pc, args, escapedArgs, plain, parsed, sanitized, i, current,
                   resolved, key, next, handled, reads, coerceVars>>

SanitizeEscaped ==
    /\ Sanitizing
    /\ \E value \in {TrimArg(args[n])} :
          /\ ~IsEscapeMarker(value, escaped)
          /\ escaped
          /\ escapedArgs' = Append(escapedArgs, coerceArgument(value))
    /\ n' = n + 1
    /\ UNCHANGED <<pc, args, escaped, plain, parsed, sanitized, i, current,
                   resolved, key, next, handled, reads, coerceVars>>

SanitizeFlag ==
    /\ Sanitizing
    /\ \E value \in {TrimArg(args[n])} :
          /\ ~IsEscapeMarker(value, escaped)
          /\ ~escaped
          /\ HasPrefix(value, S_dashdash)
          /\ sanitized' = sanitized \o FlagTokens(value)
    /\ handled' = NoRoles(Len(sanitized'))
    /\ n' = n + 1
    /\ UNCHANGED <<pc, args, escaped, escapedArgs, plain, parsed, i, current,
                   resolved, key, next, reads, coerceVars>>

SanitizeOptions ==
    /\ Sanitizing
    /\ \E value \in {TrimArg(args[n])} :
          /\ ~IsEscapeMarker(value, escaped)
          /\ ~escaped
          /\ ~HasPrefix(value, S_dashdash)
          /\ HasPrefix(value, S_dash)
          /\ parsed' = SetOptions(parsed, Options(value))
    /\ n' = n + 1
    /\ UNCHANGED <<pc, args, escaped, escapedArgs, plain, sanitized, i, current,
                   resolved, key, next, handled, reads, coerceVars>>

SanitizePlain ==
    /\ Sanitizing
    /\ \E value \in {TrimArg(args[n])} :
          /\ ~IsEscapeMarker(value, escaped)
          /\ ~escaped
          /\ ~HasPrefix(value, S_dash)
          /\ sanitized' = Append(sanitized, PlainToken(args[n], value))
    /\ handled' = NoRoles(Len(sanitized'))
    /\ n' = n + 1
    /\ UNCHANGED <<pc, args, escaped, escapedArgs, plain, parsed, i, current,
                   resolved, key, next, reads, coerceVars>>

\* line 111: i := 0
StartParse ==
    /\ pc = "sanitize"
    /\ n > Len(args)
    /\ pc' = "parse"
    /\ i' = 1
    /\ UNCHANGED <<args, n, escaped, escapedArgs, plain, parsed, sanitized, current,
                   resolved, key, next, handled, reads, coerceVars>>

(***************************************************************************)
(* Parse: the second loop (lines 111-154), one iteration per step.         *)
(***************************************************************************)
\* line 116
IsFlag(tok) == HasPrefix(tok, S_dashdash)

\* line 122
FlagKey(tok) == ReplaceFirst(tok, S_dashdash, S_empty)

\* Faulty variant of ResolveNext: a following flag is taken as the value.
ResolveNextGreedy(san, j) ==
    IF j + 1 > Len(san)
    THEN [next |-> S_true, i |-> j + 1, read |-> {}, consumed |-> FALSE]
    ELSE [next |-> san[j + 1], i |-> j + 1, read |-> {j + 1}, consumed |-> TRUE]

\* Faulty variant of ResolveNext: the index is not set back before a flag.
ResolveNextNoRewind(san, j) ==
    IF j + 1 > Len(san)
    THEN [next |-> S_true, i |-> j + 1, read |-> {}, consumed |-> FALSE]
    ELSE IF HasPrefix(san[j + 1], S_dashdash)
    THEN [next |-> S_true, i |-> j + 1, read |-> {j + 1}, consumed |-> FALSE]
    ELSE [next |-> san[j + 1], i |-> j + 1, read |-> {j + 1}, consumed |-> TRUE]

\* lines 123-139, with j the index of the flag: the value string, the index
\* the iteration ends on, the indices read and whether a token was consumed
ResolveNext(san, j) ==
    IF j + 1 > Len(san)
    THEN [next |-> S_true, i |-> j + 1, read |-> {}, consumed |-> FALSE]
    ELSE IF HasPrefix(san[j + 1], S_dashdash)
    THEN [next |-> S_true, i |-> j, read |-> {j + 1}, consumed |-> FALSE]
    ELSE [next |-> san[j + 1], i |-> j + 1, read |-> {j + 1}, consumed |-> TRUE]

\* Faulty variant of Negation: the value string is not looked at.
NegationAlways(k, nx) ==
    IF HasPrefix(k, S_no)
    THEN [key |-> ReplaceFirst(k, S_no, S_empty), next |-> S_false]
    ELSE [key |-> k, next |-> nx]

\* lines 141-145: the --no-[flag] syntax
Negation(k, nx) ==
    IF HasPrefix(k, S_no) /\ nx = S_true
    THEN [key |-> ReplaceFirst(k, S_no, S_empty), next |-> S_false]
    ELSE [key |-> k, next |-> nx]

\* val == true || val == false
IsBool(a) == a.t = "bool"

\* Faulty variant of Merge: a stored list grows by one element.
MergeFlat(p, k, v) ==
    IF ~Has(p, k) \/ p[k].t = "bool" THEN Put(p, k, v)
    ELSE IF p[k].t = "[]Arg" THEN Put(p, k, SliceV(Append(p[k].v, v)))
    ELSE Put(p, k, SliceV(<<p[k], v>>))

\* lines 149-153
Merge(p, k, v) ==
    IF ~Has(p, k) \/ IsBool(p[k]) THEN Put(p, k, v)
    ELSE Put(p, k, SliceV(<<p[k], v>>))

\* handled with one more role for token j
Role(h, j, r) == [h EXCEPT ![j] = Append(@, r)]

Parsing == pc = "parse" /\ i <= Len(sanitized)

ParsePlain ==
    /\ Parsing
    /\ ~IsFlag(sanitized[i])
    /\ current' = sanitized[i]
    /\ plain' = Append(plain, coerceArgument(sanitized[i]))
    /\ handled' = Role(handled, i, "plain")
    /\ reads' = reads \cup {i}
    /\ i' = i + 1
    /\ UNCHANGED <<pc, args, n, escaped, escapedArgs, parsed, sanitized,
                   resolved, key, next, coerceVars>>

ParseFlag ==
    /\ Parsing
    /\ IsFlag(sanitized[i])
    /\ \E r \in {ResolveNext(sanitized, i)} :
       \E kn \in {Negation(FlagKey(sanitized[i]), r.next)} :
          /\ current' = sanitized[i]
          /\ resolved' = r.next
          /\ key' = kn.key
          /\ next' = kn.next
          /\ parsed' = Merge(parsed, kn.key, coerceArgument(kn.next))
          /\ handled' = IF r.consumed
                        THEN Role(Role(handled, i, "flag"), i + 1, "value")
                        ELSE Role(handled, i, "flag")
          /\ reads' = reads \cup {i} \cup r.read
          /\ i' = r.i + 1
    /\ UNCHANGED <<pc, args, n, escaped, escapedArgs, plain, sanitized, coerceVars>>

\* Faulty variant of Return: "_" is set only while it is still the empty list.
ReturnUnlessSet ==
    /\ pc = "parse"
    /\ i > Len(sanitized)
    /\ parsed' = IF parsed[S_under] = SliceV(<<>>)
                 THEN Put(parsed, S_under, SliceV(plain \o escapedArgs))
                 ELSE parsed
    /\ pc' = "done"
    /\ UNCHANGED <<args, n, escaped, escapedArgs, plain, sanitized, i, current,
                   resolved, key, next, handled, reads, coerceVars>>

\* line 156: the positional arguments, then the escaped ones
Positionals(pl, esc) == SliceV(pl \o esc)

Return ==
    /\ pc = "parse"
    /\ i > Len(sanitized)
    /\ parsed' = Put(parsed, S_under, Positionals(plain, escapedArgs))
    /\ pc' = "done"
    /\ UNCHANGED <<args, n, escaped, escapedArgs, plain, sanitized, i, current,
                   resolved, key, next, handled, reads, coerceVars>>

\* lines 60-83: Parse has been called with one of the lists
InitWith(lists) ==
    /\ pc = "sanitize"
    /\ args \in lists
    /\ n = 1
    /\ escaped = FALSE
    /\ escapedArgs = <<>>
    /\ plain = <<>>
    /\ parsed = EmptyMap
    /\ sanitized = <<>>
    /\ i = 1
    /\ current = <<>>
    /\ resolved = <<>>
    /\ key = <<>>
    /\ next = <<>>
    /\ handled = <<>>
    /\ reads = {}
    /\ cIn = <<>>
    /\ cOut = StrV(<<>>)
    /\ cStr = <<>>
    /\ cBack = StrV(<<>>)

Init == InitWith(ArgLists)

Next ==
    \/ SanitizeMarker
    \/ SanitizeEscaped
    \/ SanitizeFlag
    \/ SanitizeOptions
    \/ SanitizePlain
    \/ StartParse
    \/ ParsePlain
    \/ ParseFlag
    \/ Return

Spec == Init /\ [][Next]_vars

\* Parse is one sequential call: it runs on until it returns.  Fairness is
\* checked over the lists of the tokens the second loop tells apart.
FairInit == InitWith(FairArgLists)

FairSpec == FairInit /\ [][Next]_vars /\ WF_vars(Next)

(***************************************************************************)
(* coerceArgument on its own: a string is coerced, the value is printed    *)
(* (main prints the result with %v), and the printed string is coerced.    *)
(***************************************************************************)
Alphabet == {"0", "1", "x", "A", "t", "e", "n", ".", "-", "_"}

Strings == UNION {[1..k -> Alphabet] : k \in 0..MaxLen}

CoerceInit ==
    /\ pc = "coerce"
    /\ cIn \in Strings
    /\ cOut = StrV(<<>>)
    /\ cStr = <<>>
    /\ cBack = StrV(<<>>)
    /\ args = <<>>
    /\ n = 1
    /\ escaped = FALSE
    /\ escapedArgs = <<>>
    /\ plain = <<>>
    /\ parsed = EmptyMap
    /\ sanitized = <<>>
    /\ i = 1
    /\ current = <<>>
    /\ resolved = <<>>
    /\ key = <<>>
    /\ next = <<>>
    /\ handled = <<>>
    /\ reads = {}

CoerceStep ==
    /\ pc = "coerce"
    /\ cOut' = coerceArgument(cIn)
    /\ pc' = "format"
    /\ UNCHANGED <<cIn, cStr, cBack, parseVars>>

FormatStep ==
    /\ pc = "format"
    /\ cStr' = FormatArg(cOut)
    /\ pc' = "recoerce"
    /\ UNCHANGED <<cIn, cOut, cBack, parseVars>>

RecoerceStep ==
    /\ pc = "recoerce"
    /\ cBack' = coerceArgument(cStr)
    /\ pc' = "end"
    /\ UNCHANGED <<cIn, cOut, cStr, parseVars>>

CoerceNext == CoerceStep \/ FormatStep \/ RecoerceStep

CoerceSpec == CoerceInit /\ [][CoerceNext]_vars

(***************************************************************************)
(* Properties.                                                             *)
(***************************************************************************)
Done == pc = "done"

Scalar(a) == a.t \in {"float64", "uint64", "bool", "string"}

K_x == <<"x">>

\* the arguments, trimmed, that stand before the first "--" (all without one)
MarkerAt == {j \in 1..Len(args) : TrimArg(args[j]) = S_dashdash}
FirstMarker == IF MarkerAt = {} THEN Len(args) + 1
               ELSE CHOOSE j \in MarkerAt : \A k \in MarkerAt : j <= k
IsBundle(value) == HasPrefix(value, S_dash) /\ ~HasPrefix(value, S_dashdash)
BundlesAt == {j \in 1..(FirstMarker - 1) : IsBundle(TrimArg(args[j]))}
BundleKeys == {<<TrimArg(args[j])[c]>> : <<j, c>> \in
                  {q \in BundlesAt \X (2..10) : q[2] <= Len(TrimArg(args[q[1]]))}}

\* C1: the map Parse returns has the key "_", and its value is a list of
\* coerced scalar values (the positional values, then the escaped ones),
\* whatever option or flag named "_" the input holds.
C1_UnderscoreIsList ==
    Done => /\ Has(parsed, S_under)
            /\ parsed[S_under].t = "[]Arg"
            /\ parsed[S_under].v = plain \o escapedArgs
            /\ \A j \in 1..Len(parsed[S_under].v) : Scalar(parsed[S_under].v[j])

\* C1 witness: Parse returned for an input with the option "_" in a bundle
\* and a long flag stored under "_".
C1_Witness ==
    /\ Done
    /\ S_under \in BundleKeys
    /\ key = S_under

\* the values the claim C2 expects after the first "--"
AfterMarker ==
    [k \in 1..(Len(args) - FirstMarker) |-> coerceArgument(TrimArg(args[FirstMarker + k]))]

\* C2 (as claimed): every argument after the first "--", a later "--"
\* included, is coerced and appended in input order to the escaped values,
\* which are the tail of "_".
C2_AllAfterMarkerEscaped ==
    (Done /\ MarkerAt # {}) =>
        /\ escapedArgs = AfterMarker
        /\ parsed[S_under].v = plain \o AfterMarker

\* the key the second loop stores the flag at index j of sanitized under
StoredKey(j) == Negation(FlagKey(sanitized[j]), ResolveNext(sanitized, j).next).key
FlagKeys == {StoredKey(j) : j \in {q \in 1..Len(sanitized) : IsFlag(sanitized[q])}}

\* C3 (as claimed): every character of every bundle before a "--" is a key
\* of the returned map with the value true, whatever else the input holds.
C3_OptionsAlwaysTrue ==
    Done => \A k \in BundleKeys : Has(parsed, k) /\ parsed[k] = BoolV(TRUE)

\* C3 (amended): every character of every bundle before a "--" is a key of
\* the returned map; its value is true unless the character is "_" or the
\* second loop stores a long flag under the same key.
C3_OptionsTrueUnlessStored ==
    Done => \A k \in BundleKeys :
                /\ Has(parsed, k)
                /\ (k # S_under /\ k \notin FlagKeys) => parsed[k] = BoolV(TRUE)

\* C3 witness: Parse returned for a bundle of two options, one of them kept
\* true because no long flag is stored under its key.
C3_Witness ==
    /\ Done
    /\ \E k \in BundleKeys : k # S_under /\ k \notin FlagKeys
    /\ \E j \in BundlesAt : Len(TrimArg(args[j])) > 2

\* the second loop is about to handle a flag
AtFlag == pc = "parse" /\ i <= Len(sanitized) /\ IsFlag(sanitized[i])

\* [[..[v1, v2].., vn]
RECURSIVE LeftNest(_)
LeftNest(vs) ==
    IF Len(vs) = 1 THEN vs[1]
    ELSE SliceV(<<LeftNest(SubSeq(vs, 1, Len(vs) - 1)), vs[Len(vs)]>>)

\* the input is --x=v1 ... --x=vn with no space in any v, and these are the v
AllXAssign ==
    /\ args # <<>>
    /\ \A j \in 1..Len(args) :
          /\ HasPrefix(args[j], <<"-", "-", "x", "=">>)
          /\ ~In(args[j], " ")
XValues == [j \in 1..Len(args) |-> coerceArgument(SubSeq(args[j], 5, Len(args[j])))]

\* C4: a flag's value replaces an absent or boolean stored value, and
\* otherwise makes the pair [stored value, new value]; so n occurrences of
\* a flag with non-boolean values give the left-nested list.
C4_MergePolicy ==
    /\ [][AtFlag =>
            LET v == coerceArgument(next')
            IN  /\ Has(parsed', key')
                /\ \A k \in DOMAIN parsed' \ {key'} : Has(parsed, k) /\ parsed'[k] = parsed[k]
                /\ IF ~Has(parsed, key') THEN parsed'[key'] = v
                   ELSE IF parsed[key'].t = "bool" THEN parsed'[key'] = v
                   ELSE parsed'[key'] = SliceV(<<parsed[key'], v>>)]_vars
    /\ []((Done /\ AllXAssign /\ \A j \in 1..Len(args) : XValues[j].t # "bool")
            => parsed[K_x] = LeftNest(XValues))

\* C4 witness: Parse returned x = [[v1, v2], v3].
C4_Witness ==
    /\ Done
    /\ AllXAssign
    /\ Len(args) >= 3
    /\ parsed[K_x].t = "[]Arg"
    /\ parsed[K_x].v[1].t = "[]Arg"

\* C5: a flag that is the last token, or that another flag follows, gets the
\* value string "true", and the following flag is the next token handled;
\* otherwise the next token is the value and is not made a positional.
C5_ValueOrTrue ==
    [][AtFlag =>
        IF i = Len(sanitized)
        THEN resolved' = S_true /\ i' = i + 2 /\ plain' = plain
        ELSE IF IsFlag(sanitized[i + 1])
        THEN /\ resolved' = S_true
             /\ i' = i + 1
             /\ handled'[i + 1] = <<>>
             /\ plain' = plain
        ELSE /\ resolved' = sanitized[i + 1]
             /\ i' = i + 2
             /\ handled'[i + 1] = <<"value">>
             /\ plain' = plain]_vars

\* C5 witness: a flag followed by a flag, then one with a value, were handled.
C5_Witness ==
    /\ Done
    /\ Len(sanitized) >= 3
    /\ handled[1] = <<"flag">>
    /\ handled[2] = <<"flag">>
    /\ handled[3] = <<"value">>

\* v is what the step stored under k: the value itself, or the second of a pair
StoredAs(k, v) ==
    /\ Has(parsed', k)
    /\ IF parsed'[k].t = v.t THEN parsed'[k] = v
       ELSE parsed'[k].t = "[]Arg" /\ Len(parsed'[k].v) = 2 /\ parsed'[k].v[2] = v

\* C6: for a flag whose key starts with "no-": when the resolved value string
\* is exactly "true" the key stored is the key without its first "no-" and
\* the value stored is the boolean false; for any other value string the key
\* keeps its prefix and the value is the coercion of that string.
C6_Negation ==
    [][(AtFlag /\ HasPrefix(FlagKey(sanitized[i]), S_no)) =>
        LET k0 == FlagKey(sanitized[i])
        IN  /\ DOMAIN parsed' = DOMAIN parsed \cup {key'}
            /\ IF resolved' = S_true
               THEN /\ key' = SubSeq(k0, 4, Len(k0))
                    /\ StoredAs(key', BoolV(FALSE))
               ELSE /\ key' = k0
                    /\ StoredAs(key', coerceArgument(resolved'))]_vars

\* C6 witness: --no-x was given the token true as its value, and x is false.
C6_Witness ==
    /\ Done
    /\ current = <<"-", "-", "n", "o", "-", "x">>
    /\ handled[Len(handled)] = <<"value">>
    /\ resolved = S_true
    /\ parsed[K_x] = BoolV(FALSE)

\* C7 (as claimed): a "--" argument with "=" gives two tokens, the text
\* before the first "=" and all the text after it; one without gives itself.
C7_SplitOnFirstEq ==
    [][(Sanitizing /\ ~escaped /\ TrimArg(args[n]) # S_dashdash
            /\ HasPrefix(TrimArg(args[n]), S_dashdash)) =>
        LET value == TrimArg(args[n])
            e     == Index(value, S_eq)
        IN  sanitized' = sanitized \o
                (IF e = 0 THEN <<value>>
                 ELSE <<SubSeq(value, 1, e - 1), SubSeq(value, e + 1, Len(value))>>)]_vars

\* the input holds regular arguments only
AllPlain == \A j \in 1..Len(args) : ~HasPrefix(TrimArg(args[j]), S_dash)

\* C8 (as claimed): a regular argument is stored in "_" as the coercion of
\* its trimmed text.
C8_PositionalsTrimmed ==
    (Done /\ AllPlain) =>
        parsed[S_under].v = [j \in 1..Len(args) |-> coerceArgument(TrimArg(args[j]))]

\* C9 (as claimed): coercing the string form of a coerced value gives the
\* same type and value.
C9_Idempotent == pc = "end" => cBack = cOut

\* C9 (amended): that holds when the coerced value is a float64, a bool or a
\* string; a uint64 comes from "0x" and hex digits only, its string form is
\* its decimal digits, and they coerce to the float64 of the same number.
C9_IdempotentButHex ==
    pc = "end" =>
        IF cOut.t = "uint64"
        THEN /\ HasPrefix(cIn, S_0x)
             /\ cStr = DecString(cOut.v)
             /\ cBack = FloatV(FALSE, cOut.v, 0)
        ELSE cBack = cOut

\* C9 witness: a hex string gave a uint64 whose string form gave a float64.
C9_Witness ==
    /\ pc = "end"
    /\ cOut.t = "uint64"
    /\ cOut.v > 9
    /\ cBack.t = "float64"

\* C10: the second loop ends, reads sanitized only inside it, and gives
\* every token exactly one role: positional, flag or value of the flag before.
C10_EveryTokenOnce ==
    /\ <>Done
    /\ [](/\ reads \subseteq 1..Len(sanitized)
          /\ (pc = "parse" => i \in 1..(Len(sanitized) + 2))
          /\ \A j \in 1..Len(handled) : Len(handled[j]) <= 1)
    /\ [](Done => /\ Len(handled) = Len(sanitized)
                  /\ reads = 1..Len(sanitized)
                  /\ \A j \in 1..Len(handled) :
                        /\ Len(handled[j]) = 1
                        /\ handled[j][1] = "value" => (j > 1 /\ handled[j - 1] = <<"flag">>)
                        /\ handled[j][1] = "flag" <=> (IsFlag(sanitized[j])))

\* C10 witness: the loop ended after a rewind, a consumed value and a positional.
C10_Witness ==
    /\ Done
    /\ \E j \in 1..(Len(handled) - 1) : handled[j] = <<"flag">> /\ handled[j + 1] = <<"flag">>
    /\ \E j \in 1..Len(handled) : handled[j] = <<"value">>
    /\ \E j \in 1..Len(handled) : handled[j] = <<"plain">>

====
